---- MODULE Spec2Model ----
(***************************************************************************)
(* FunctionTracer (packages/core/src/utils/functionTracer.ts): the         *)
(* process-wide call tracer and the trace() wrapper.                       *)
(*                                                                         *)
(* The tracer's fields (enabled, callStack, depth) are the state; out is   *)
(* what the last operation wrote with console.debug (the timestamp of a    *)
(* line is left out: it is the wall clock and nothing reads it back). Every*)
(* method of the class is an operator from a tracer state to the tracer    *)
(* state it leaves and the exception it raises, translated statement by    *)
(* statement, so that an exception raised half-way through a method leaves *)
(* exactly the assignments made before it.                                 *)
(***************************************************************************)
EXTENDS Integers, Sequences, FiniteSets, TLC

VARIABLES
  enabled,     \* FunctionTracer.enabled
  callStack,   \* FunctionTracer.callStack
  depth,       \* FunctionTracer.depth
  out,         \* the lines the last operation wrote with console.debug
  wrappers,    \* the wrappers trace() has produced so far
  calls,       \* the invocations of wrappers, in call order
  owners,      \* for each frame of callStack, the invocation that pushed it (0: a direct enter)
  snap,        \* the array a caller got from getCallStack and still holds
  seq,         \* bookkeeping of the current run of paired enter/exit calls
  alwaysOn,    \* whether tracing has been enabled ever since construction
  last         \* the last operation performed: its name, the flag before it, what it raised

vars == <<enabled, callStack, depth, out, wrappers, calls, owners, snap, seq, alwaysOn, last>>

---------------------------------------------------------------------------
(* Bounds of the model. *)

MaxExtra == 50     \* characters of the longest rendered value beyond the threshold
MaxCalls == 2      \* invocations of wrappers
MaxDepth == 2      \* frames on the call stack

(* Program constants. *)

ArgMaxLen == 200        \* enter / log: longest value rendered unmodified
ArgPrefixLen == 100     \* enter / log: characters kept of a longer value
ResultPrefixLen == 100  \* exit: characters kept of a serialized result
PromptMaxLen == 100     \* logPrompt: longest prompt rendered unmodified
ResponseMaxLen == 200   \* logResponse: longest response rendered unmodified

---------------------------------------------------------------------------
(* JavaScript values, as far as the tracer looks at them: the kind of the  *)
(* value and its text (a string's content, String(v) of another primitive, *)
(* the JSON text of an object, the message of an Error).                   *)

Str(s) == [kind |-> "string", text |-> s]
Num(s) == [kind |-> "number", text |-> s]
Undefined == [kind |-> "undefined", text |-> "undefined"]
Null == [kind |-> "null", text |-> "null"]
Obj(json) == [kind |-> "object", text |-> json]
\* an object JSON.stringify rejects: a cyclic structure, or one holding a BigInt
Circular == [kind |-> "circular", text |-> ""]
Err(msg) == [kind |-> "error", text |-> msg]
\* no value: no exception raised
None == [kind |-> "none", text |-> ""]

TypeError == Err("TypeError")

\* typeof v
TypeOf(v) ==
  CASE v.kind = "string" -> "string"
    [] v.kind = "number" -> "number"
    [] v.kind = "undefined" -> "undefined"
    [] OTHER -> "object"

\* String(v)
String(v) ==
  CASE v.kind \in {"object", "circular"} -> "[object Object]"
    [] v.kind = "error" -> "Error: " \o v.text
    [] OTHER -> v.text

\* JSON.stringify(v) of an object or null: the text, or the TypeError it raises
JSONstringify(v) ==
  CASE v.kind = "circular" -> [exc |-> TypeError, s |-> ""]
    [] v.kind = "error" -> [exc |-> None, s |-> "{}"]
    [] OTHER -> [exc |-> None, s |-> v.text]

Min(a, b) == IF a < b THEN a ELSE b
Max(a, b) == IF a > b THEN a ELSE b

\* s.slice(0, n)
Slice(s, n) == SubSeq(s, 1, Min(n, Len(s)))

\* parts.join(sep)
RECURSIVE Join(_, _)
Join(parts, sep) ==
  IF Len(parts) = 0 THEN ""
  ELSE IF Len(parts) = 1 THEN parts[1]
  ELSE parts[1] \o sep \o Join(Tail(parts), sep)

\* c.repeat(n)
RECURSIVE Repeat(_, _)
Repeat(c, n) ==
  IF n = 0 THEN ""
  ELSE IF n = 1 THEN c
  ELSE Repeat(c, n \div 2) \o Repeat(c, n - (n \div 2))

---------------------------------------------------------------------------
(* The tracer. A tracer state t is [enabled, callStack, depth, out], out    *)
(* being the lines written since the operation began; each method returns  *)
(* [t |-> the state it leaves, exc |-> the exception it raises or None].   *)

Line(mark, d, name, detail) == [mark |-> mark, indent |-> d, name |-> name, detail |-> detail]

Done(t) == [t |-> t, exc |-> None]
Raise(t, e) == [t |-> t, exc |-> e]

\* className ? `${className}.${functionName}` : functionName  ("" stands for undefined)
FullName(functionName, className) ==
  IF className # "" THEN className \o "." \o functionName ELSE functionName

\* FormatArg truncating from the threshold on (>= for >) and annotating with
\* the length of what it kept
FormatArgOffByOne(arg) ==
  IF TypeOf(arg) = "string" /\ Len(arg.text) >= ArgMaxLen
    THEN [exc |-> None,
          s |-> "\"" \o Slice(arg.text, ArgPrefixLen) \o "...\" (" \o ToString(ArgPrefixLen) \o " chars)"]
  ELSE IF TypeOf(arg) = "object" /\ arg.kind # "null"
    THEN LET j == JSONstringify(arg)
         IN IF j.exc # None THEN j
            ELSE [exc |-> None,
                  s |-> IF Len(j.s) >= ArgMaxLen THEN Slice(j.s, ArgPrefixLen) \o "..." ELSE j.s]
  ELSE [exc |-> None, s |-> String(arg)]

\* enter, the args.map callback: one argument's rendering
FormatArg(arg) ==
  IF TypeOf(arg) = "string" /\ Len(arg.text) > ArgMaxLen
    THEN [exc |-> None,
          s |-> "\"" \o Slice(arg.text, ArgPrefixLen) \o "...\" (" \o ToString(Len(arg.text)) \o " chars)"]
  ELSE IF TypeOf(arg) = "object" /\ arg.kind # "null"
    THEN LET j == JSONstringify(arg)
         IN IF j.exc # None THEN j
            ELSE [exc |-> None,
                  s |-> IF Len(j.s) > ArgMaxLen THEN Slice(j.s, ArgPrefixLen) \o "..." ELSE j.s]
  ELSE [exc |-> None, s |-> String(arg)]

\* args is [given |-> FALSE] for an omitted parameter
NoArgs == [given |-> FALSE, list |-> <<>>]
Args(list) == [given |-> TRUE, list |-> list]

setEnabled(t, e) == Done([t EXCEPT !.enabled = e])

isEnabled(t) == t.enabled

\* enter past the guard on the flag
enterBody(t, functionName, className, args) ==
  LET fullName == FullName(functionName, className)
      fmt == [i \in 1..Len(args.list) |-> FormatArg(args.list[i])]
      bad == {i \in 1..Len(args.list) : fmt[i].exc # None}
      argsStr == IF args.given
                   THEN " (" \o Join([i \in 1..Len(args.list) |-> fmt[i].s], ", ") \o ")"
                   ELSE ""
  IN IF args.given /\ bad # {}
       THEN Raise(t, fmt[CHOOSE i \in bad : \A k \in bad : i <= k].exc)
       ELSE Done([t EXCEPT !.out = Append(@, Line("enter", t.depth, fullName, argsStr)),
                           !.callStack = Append(@, fullName),
                           !.depth = @ + 1])

\* enter without `if (!this.enabled) return`
enterUngated(t, functionName, className, args) == enterBody(t, functionName, className, args)

enter(t, functionName, className, args) ==
  IF ~t.enabled THEN Done(t) ELSE enterBody(t, functionName, className, args)

\* callStack.pop()
Pop(s) == IF Len(s) = 0 THEN s ELSE SubSeq(s, 1, Len(s) - 1)

\* exit: the rendering of the result (" -> " stands for the arrow glyph)
ResultStr(result) ==
  IF result.kind = "undefined" THEN [exc |-> None, s |-> ""]
  ELSE IF TypeOf(result) = "object"
    THEN LET j == JSONstringify(result)
         IN IF j.exc # None THEN j
            ELSE [exc |-> None, s |-> " -> " \o Slice(j.s, ResultPrefixLen)]
  ELSE [exc |-> None, s |-> " -> " \o String(result)]

\* an exit that removes the frame of the name it is given (the one nearest
\* the top) where the code pops the top frame
exitByName(t, functionName, className, result) ==
  IF ~t.enabled THEN Done(t)
  ELSE
    LET t1 == [t EXCEPT !.depth = Max(0, @ - 1)]
        fullName == FullName(functionName, className)
        r == ResultStr(result)
        at == {i \in 1..Len(t.callStack) : t.callStack[i] = fullName}
        k == IF at = {} THEN 0 ELSE CHOOSE i \in at : \A j \in at : j <= i
    IN IF r.exc # None THEN Raise(t1, r.exc)
       ELSE Done([t1 EXCEPT !.out = Append(@, Line("exit", t1.depth, fullName, r.s)),
                            !.callStack = IF k = 0 THEN @
                                          ELSE SubSeq(@, 1, k - 1) \o SubSeq(@, k + 1, Len(@))])

exit(t, functionName, className, result) ==
  IF ~t.enabled THEN Done(t)
  ELSE
    LET t1 == [t EXCEPT !.depth = Max(0, @ - 1)]
        fullName == FullName(functionName, className)
        r == ResultStr(result)
    IN IF r.exc # None THEN Raise(t1, r.exc)
       ELSE Done([t1 EXCEPT !.out = Append(@, Line("exit", t1.depth, fullName, r.s)),
                            !.callStack = Pop(@)])

\* error: error instanceof Error ? error.message : String(error)
ErrorStr(e) == IF e.kind = "error" THEN e.text ELSE String(e)

error(t, functionName, className, e) ==
  IF ~t.enabled THEN Done(t)
  ELSE Done([t EXCEPT !.out = Append(@, Line("error", t.depth,
                                     FullName(functionName, className),
                                     " ERROR: " \o ErrorStr(e)))])

\* log: the rendering of data
DataStr(data) ==
  IF data.kind = "undefined" THEN [exc |-> None, s |-> ""]
  ELSE IF TypeOf(data) = "string" /\ Len(data.text) > ArgMaxLen
    THEN [exc |-> None,
          s |-> " | \"" \o Slice(data.text, ArgPrefixLen) \o "...\" (" \o ToString(Len(data.text)) \o " chars)"]
  ELSE IF TypeOf(data) = "object" /\ data.kind # "null"
    THEN LET j == JSONstringify(data)
         IN IF j.exc # None THEN j
            ELSE [exc |-> None,
                  s |-> " | " \o (IF Len(j.s) > ArgMaxLen THEN Slice(j.s, ArgPrefixLen) \o "..." ELSE j.s)]
  ELSE [exc |-> None, s |-> " | " \o String(data)]

log(t, message, data) ==
  IF ~t.enabled THEN Done(t)
  ELSE LET d == DataStr(data)
       IN IF d.exc # None THEN Raise(t, d.exc)
          ELSE Done([t EXCEPT !.out = Append(@, Line("log", t.depth, message, d.s))])

\* logPrompt / logResponse: metadata ? ` | ${JSON.stringify(metadata)}` : ''
MetaStr(metadata) ==
  IF metadata.kind = "undefined" THEN [exc |-> None, s |-> ""]
  ELSE LET j == JSONstringify(metadata)
       IN IF j.exc # None THEN j ELSE [exc |-> None, s |-> " | " \o j.s]

logPrompt(t, prompt, metadata) ==
  IF ~t.enabled THEN Done(t)
  ELSE LET truncated == IF Len(prompt) > PromptMaxLen
                          THEN Slice(prompt, PromptMaxLen) \o "..." ELSE prompt
           m == MetaStr(metadata)
       IN IF m.exc # None THEN Raise(t, m.exc)
          ELSE Done([t EXCEPT !.out = Append(@, Line("prompt", t.depth, "USER_PROMPT",
                 ": \"" \o truncated \o "\" (" \o ToString(Len(prompt)) \o " chars)" \o m.s))])

logResponse(t, response, metadata) ==
  IF ~t.enabled THEN Done(t)
  ELSE LET truncated == IF Len(response) > ResponseMaxLen
                          THEN Slice(response, ResponseMaxLen) \o "..." ELSE response
           m == MetaStr(metadata)
       IN IF m.exc # None THEN Raise(t, m.exc)
          ELSE Done([t EXCEPT !.out = Append(@, Line("response", t.depth, "API_RESPONSE",
                 ": \"" \o truncated \o "\" (" \o ToString(Len(response)) \o " chars)" \o m.s))])

\* logLLMPrompt: the prompt as one string. An array is [kind |-> "array", parts];
\* of the objects only {} is drawn, whose indented JSON is its compact JSON.
PartStr(part) ==
  IF TypeOf(part) = "string" THEN [exc |-> None, s |-> part.text]
  ELSE JSONstringify(part)

PromptStr(prompt) ==
  IF TypeOf(prompt) = "string" THEN [exc |-> None, s |-> prompt.text]
  ELSE IF prompt.kind = "array"
    THEN LET ps == [i \in 1..Len(prompt.parts) |-> PartStr(prompt.parts[i])]
             bad == {i \in 1..Len(prompt.parts) : ps[i].exc # None}
         IN IF bad # {} THEN [exc |-> TypeError, s |-> ""]
            ELSE [exc |-> None, s |-> Join([i \in 1..Len(prompt.parts) |-> ps[i].s], " ")]
  ELSE IF TypeOf(prompt) = "object" /\ prompt.kind # "null"
    THEN JSONstringify(prompt)
  ELSE [exc |-> None, s |-> String(prompt)]

logLLMPrompt(t, prompt, metadata) ==
  IF ~t.enabled THEN Done(t)
  ELSE LET p == PromptStr(prompt)
           m == MetaStr(metadata)
       IN IF p.exc # None THEN Raise(t, p.exc)
          ELSE IF m.exc # None THEN Raise(t, m.exc)
          ELSE Done([t EXCEPT !.out = @ \o
                 << Line("llm", t.depth, "LLM_PROMPT", ":"),
                    Line("llm", 0, "", p.s),
                    Line("llm", t.depth, "PROMPT_LENGTH",
                         ": " \o ToString(Len(p.s)) \o " chars" \o m.s) >>])

\* getCallStack returning `this.callStack` itself
getCallStackAliased(t) == [alias |-> TRUE, arr |-> t.callStack]

\* getCallStack: `[...this.callStack]`, a fresh array. The value returned is a
\* reference: alias says whether it is the tracer's own array, arr is the content
\* of a fresh one at the time of the call.
getCallStack(t) == [alias |-> FALSE, arr |-> t.callStack]

---------------------------------------------------------------------------
(* trace(target, propertyName, descriptor).  A target is what typeof and   *)
(* .name / .constructor.name say of it; propertyName "" is an omitted one. *)

FnTarget(name) == [kind |-> "function", name |-> name, ctor |-> "Function"]
ProtoTarget(ctor) == [kind |-> "object", name |-> "", ctor |-> ctor]
NumTarget == [kind |-> "number", name |-> "", ctor |-> "Number"]

NoDescriptor == [given |-> FALSE, callable |-> FALSE]
\* a descriptor, and whether descriptor.value is callable
Descriptor(callable) == [given |-> TRUE, callable |-> callable]

NoWrapper == [form |-> "none", name |-> "", cls |-> "", callable |-> FALSE]

trace(target, propertyName, descriptor) ==
  IF target.kind = "function" /\ propertyName = "" /\ ~descriptor.given
    THEN [exc |-> None,
          wrapper |-> [form |-> "function", name |-> target.name, cls |-> "", callable |-> TRUE]]
  ELSE IF propertyName # "" /\ descriptor.given
    THEN [exc |-> None,
          wrapper |-> [form |-> "method", name |-> propertyName, cls |-> target.ctor,
                       callable |-> descriptor.callable]]
  ELSE [exc |-> Err("Invalid decorator usage"), wrapper |-> NoWrapper]

\* the names a wrapper passes to the tracer
WrapperFunctionName(w) ==
  IF w.form = "function" THEN (IF w.name # "" THEN w.name ELSE "anonymous") ELSE w.name

WrapperClassName(w) ==
  IF w.form = "function" THEN "" ELSE (IF w.cls # "" THEN w.cls ELSE "Unknown")

\* What the caller of a wrapper observes: how is "returned", "threw", "promise"
\* (a pending promise), "fulfilled" or "rejected"; v is the value or the reason.
Outcome(how, v) == [how |-> how, v |-> v]

\* the catch block / the .catch handler: tracer.error(...); throw error
WrapperCatch(t, w, e, how) ==
  LET r == error(t, WrapperFunctionName(w), WrapperClassName(w), e)
  IN [t |-> r.t, outcome |-> Outcome(how, e)]

\* the wrapper up to the call of the original: tracer.enter(...) outside the try,
\* then originalFunction.apply, which raises a TypeError inside the try when the
\* original is not callable. outcome "running": the original's body is executing.
WrapperEnter(t, w, args) ==
  LET r == enter(t, WrapperFunctionName(w), WrapperClassName(w), Args(args))
  IN IF r.exc # None THEN [t |-> r.t, outcome |-> Outcome("threw", r.exc)]
     ELSE IF ~w.callable THEN WrapperCatch(r.t, w, TypeError, "threw")
     ELSE [t |-> r.t, outcome |-> Outcome("running", None)]

\* the original returned result, not a Promise: tracer.exit(...) inside the try
WrapperReturn(t, w, result) ==
  LET r == exit(t, WrapperFunctionName(w), WrapperClassName(w), result)
  IN IF r.exc # None THEN WrapperCatch(r.t, w, r.exc, "threw")
     ELSE [t |-> r.t, outcome |-> Outcome("returned", result)]

\* a catch block that logs the error and does not rethrow it
WrapperThrowSwallowed(t, w, e) ==
  [t |-> WrapperCatch(t, w, e, "threw").t, outcome |-> Outcome("returned", Undefined)]

\* the original threw e
WrapperThrow(t, w, e) == WrapperCatch(t, w, e, "threw")

\* the .then handler: tracer.exit(...); return res. When exit raises, the promise
\* .then returned rejects and the .catch handler runs in a later microtask.
WrapperThen(t, w, res) ==
  LET r == exit(t, WrapperFunctionName(w), WrapperClassName(w), res)
  IN IF r.exc # None THEN [t |-> r.t, outcome |-> Outcome("exitRaised", r.exc)]
     ELSE [t |-> r.t, outcome |-> Outcome("fulfilled", res)]

\* a .catch handler that logs the error and does not rethrow it
WrapperRejectedSwallowed(t, w, e) ==
  [t |-> WrapperCatch(t, w, e, "rejected").t, outcome |-> Outcome("fulfilled", Undefined)]

\* the .catch handler
WrapperRejected(t, w, e) == WrapperCatch(t, w, e, "rejected")

---------------------------------------------------------------------------
(* The inputs the operations are called with. *)

FunctionNames == {"f"}
ClassNames == {"", "K"}
EnterArgs == {NoArgs, Args(<<Num("2"), Str("hi")>>), Args(<<Circular>>)}
ExitResults == {Undefined, Num("5"), Circular}
LogData == {Undefined, Obj("{\"a\":1}"), Circular}
Metadata == {Undefined, Circular}
Prompts == {"hi"}
LLMPrompts == {Str("hi"), [kind |-> "array", text |-> "", parts |-> <<Str("a"), Obj("{}")>>], Circular}
\* what a wrapped function is called with, returns, throws, and settles its promise with
CallArgs == {<<Num("2"), Num("3")>>, <<Circular>>}
Results == {Num("5"), Circular}
Thrown == {Err("boom"), Str("oops")}
\* trace(...) as it is called: a function, a number, a method of a class whose
\* descriptor.value is callable or not, and a function with a property name only
TraceInputs ==
  { <<FnTarget("add"), "", NoDescriptor>>,
    <<NumTarget, "", NoDescriptor>>,
    <<ProtoTarget("Svc"), "run", Descriptor(TRUE)>>,
    <<ProtoTarget("Svc"), "run", Descriptor(FALSE)>>,
    <<FnTarget("add"), "run", NoDescriptor>> }
\* what a caller does to the array getCallStack returned
Mutations == {"push", "clear"}

\* whether an input holds a value JSON.stringify rejects
Malformed(vs) == \E i \in 1..Len(vs) : vs[i] = Circular

---------------------------------------------------------------------------
(* The state machine. *)

Tracer == [enabled |-> enabled, callStack |-> callStack, depth |-> depth, out |-> <<>>]

\* input: the value an operation was given, where a claim reads it back
LastIn(op, exc, bad, input) == [op |-> op, en |-> enabled, exc |-> exc, bad |-> bad, input |-> input]
Last(op, exc, bad) == LastIn(op, exc, bad, None)

NoSnap == [held |-> FALSE, alias |-> FALSE, arr |-> <<>>]
Idle == [open |-> 0, baseDepth |-> 0, baseStack |-> <<>>, pure |-> TRUE, done |-> FALSE]

\* whether the value trace is asked to wrap is callable
Callable(target, propertyName, descriptor) ==
  IF propertyName # "" /\ descriptor.given THEN descriptor.callable
  ELSE target.kind = "function"

\* The state after construction; ws is the wrappers produced so far.
InitWith(ws) ==
  /\ enabled \in BOOLEAN   \* the constructor reads DEBUG / GEMINI_TRACE_FUNCTIONS
  /\ callStack = <<>>
  /\ depth = 0
  /\ out = <<>>
  /\ wrappers = ws
  /\ calls = <<>>
  /\ owners = <<>>
  /\ snap = NoSnap
  /\ seq = Idle
  /\ alwaysOn = enabled
  /\ last = Last("init", None, FALSE)

Init == InitWith({})

\* The state once the modules are loaded: decorators run when a class or a
\* module is defined, before any of its functions is called. Decorated is what
\* trace made of the functions and methods it was given.
Decorated ==
  {trace(inp[1], inp[2], inp[3]).wrapper :
     inp \in {i \in TraceInputs : Callable(i[1], i[2], i[3]) /\ trace(i[1], i[2], i[3]).exc = None}}

InitLoaded == InitWith(Decorated)

\* the invocation whose frame each frame of the new call stack is
NextOwners(cs2, c) == [i \in 1..Len(cs2) |-> IF i <= Len(owners) THEN owners[i] ELSE c]

\* The run of paired enter/exit calls under way: it starts with an enter made
\* when none is open, and is complete when the exits have matched the enters.
NextSeq(kind) ==
  CASE kind = "enter" ->
         IF seq.open = 0
           THEN [open |-> 1, baseDepth |-> depth, baseStack |-> callStack,
                 pure |-> TRUE, done |-> FALSE]
           ELSE [seq EXCEPT !.open = @ + 1]
    [] kind = "exit" ->
         IF seq.open = 0 THEN Idle
         ELSE [seq EXCEPT !.open = @ - 1, !.done = (seq.open = 1)]
    [] kind = "flag" -> IF seq.open > 0 THEN [seq EXCEPT !.pure = FALSE] ELSE seq
    [] OTHER -> seq

\* a tracer method has run: r is what it returned
ApplyIn(r, op, kind, c, bad, input) ==
  /\ enabled' = r.t.enabled
  /\ callStack' = r.t.callStack
  /\ depth' = r.t.depth
  /\ out' = r.t.out
  /\ owners' = NextOwners(r.t.callStack, c)
  /\ seq' = NextSeq(kind)
  /\ alwaysOn' = (alwaysOn /\ r.t.enabled)
  /\ last' = LastIn(op, r.exc, bad, input)

Apply(r, op, kind, c, bad) == ApplyIn(r, op, kind, c, bad, None)

DoSetEnabled ==
  \E e \in BOOLEAN :
    /\ Apply(setEnabled(Tracer, e), "setEnabled", IF e # enabled THEN "flag" ELSE "other", 0, FALSE)
    /\ UNCHANGED <<wrappers, calls, snap>>

DoEnter ==
  \E fn \in FunctionNames, cls \in ClassNames, args \in EnterArgs :
    /\ depth < MaxDepth
    /\ Len(callStack) < MaxDepth
    /\ seq.open < MaxDepth
    /\ Apply(enter(Tracer, fn, cls, args), "enter", "enter", 0, Malformed(args.list))
    /\ UNCHANGED <<wrappers, calls, snap>>

DoExit ==
  \E fn \in FunctionNames, cls \in ClassNames, result \in ExitResults :
    /\ Apply(exit(Tracer, fn, cls, result), "exit", "exit", 0, result = Circular)
    /\ UNCHANGED <<wrappers, calls, snap>>

DoError ==
  \E fn \in FunctionNames, cls \in ClassNames, e \in Thrown :
    /\ Apply(error(Tracer, fn, cls, e), "error", "other", 0, FALSE)
    /\ UNCHANGED <<wrappers, calls, snap>>

DoLog ==
  \E data \in LogData :
    /\ Apply(log(Tracer, "msg", data), "log", "other", 0, data = Circular)
    /\ UNCHANGED <<wrappers, calls, snap>>

DoLogPrompt ==
  \E prompt \in Prompts, metadata \in Metadata :
    /\ Apply(logPrompt(Tracer, prompt, metadata), "logPrompt", "other", 0, metadata = Circular)
    /\ UNCHANGED <<wrappers, calls, snap>>

DoLogResponse ==
  \E response \in Prompts, metadata \in Metadata :
    /\ Apply(logResponse(Tracer, response, metadata), "logResponse", "other", 0, metadata = Circular)
    /\ UNCHANGED <<wrappers, calls, snap>>

DoLogLLMPrompt ==
  \E prompt \in LLMPrompts, metadata \in Metadata :
    /\ Apply(logLLMPrompt(Tracer, prompt, metadata), "logLLMPrompt", "other", 0,
             prompt = Circular \/ metadata = Circular)
    /\ UNCHANGED <<wrappers, calls, snap>>

DoGetCallStack ==
  /\ snap' = [held |-> TRUE] @@ getCallStack(Tracer)
  /\ out' = <<>>
  /\ last' = Last("getCallStack", None, FALSE)
  /\ UNCHANGED <<enabled, callStack, depth, wrappers, calls, owners, seq, alwaysOn>>

\* arr.push("x") / arr.length = 0 on the array getCallStack returned
Mutate(arr, m) == IF m = "push" THEN Append(arr, "x") ELSE <<>>

MutateSnapshot ==
  \E m \in Mutations :
    /\ snap.held
    /\ m = "push" => Len(IF snap.alias THEN callStack ELSE snap.arr) < MaxDepth
    /\ IF snap.alias
         THEN /\ callStack' = Mutate(callStack, m)
              /\ snap' = snap
         ELSE /\ callStack' = callStack
              /\ snap' = [snap EXCEPT !.arr = Mutate(@, m)]
    /\ owners' = NextOwners(callStack', 0)
    /\ out' = <<>>
    /\ last' = Last("mutate", None, FALSE)
    /\ UNCHANGED <<enabled, depth, wrappers, calls, seq, alwaysOn>>

DoTrace ==
  \E inp \in TraceInputs :
    LET r == trace(inp[1], inp[2], inp[3])
    IN /\ wrappers' = IF r.exc = None THEN wrappers \cup {r.wrapper} ELSE wrappers
       /\ out' = <<>>
       /\ last' = Last("trace", r.exc, ~Callable(inp[1], inp[2], inp[3]))
       /\ UNCHANGED <<enabled, callStack, depth, calls, owners, snap, seq, alwaysOn>>

---------------------------------------------------------------------------
(* Invocations of wrappers.  JavaScript runs one call stack: the wrapped   *)
(* functions whose bodies are executing nest, only the innermost returns   *)
(* or throws, and promise handlers run when no body is executing.          *)

Running == {i \in 1..Len(calls) : calls[i].st = "running"}
Top == CHOOSE i \in Running : \A k \in Running : k <= i

\* a wrapper's step: the tracer state it leaves
Step(t2, op, kind, c) ==
  Apply([t |-> t2, exc |-> None], op, kind, c, FALSE)

Call ==
  \E w \in wrappers, args \in CallArgs :
    LET c == Len(calls) + 1
        r == WrapperEnter(Tracer, w, args)
        entered == enter(Tracer, WrapperFunctionName(w), WrapperClassName(w), Args(args)).exc = None
    IN /\ Len(calls) < MaxCalls
       /\ depth < MaxDepth
       /\ Len(callStack) < MaxDepth
       /\ calls' = Append(calls,
            [w |-> w,
             st |-> IF r.outcome.how = "running" THEN "running" ELSE "settled",
             orig |-> Outcome(IF ~entered THEN "notInvoked"
                              ELSE IF ~w.callable THEN "notCallable" ELSE "none", None),
             res |-> r.outcome,
             raised |-> None,
             flags |-> {enabled},
             emits |-> r.t.out,
             d0 |-> depth,
             restored |-> (r.t.depth = depth)])
       /\ Step(r.t, "call", "enter", c)
       /\ UNCHANGED <<wrappers, snap>>

\* the innermost executing original returns a value that is no Promise
Return ==
  \E v \in Results \cup {Undefined} :
    /\ Running # {}
    /\ LET c == Top
           r == WrapperReturn(Tracer, calls[c].w, v)
       IN /\ calls' = [calls EXCEPT ![c] =
                 [@ EXCEPT !.st = "settled", !.orig = Outcome("returned", v),
                           !.res = r.outcome, !.flags = @ \cup {enabled},
                           !.emits = @ \o r.t.out, !.restored = (r.t.depth = calls[c].d0)]]
          /\ Step(r.t, "return", "exit", c)
    /\ UNCHANGED <<wrappers, snap>>

\* the innermost executing original throws
Throw ==
  \E e \in Thrown :
    /\ Running # {}
    /\ LET c == Top
           r == WrapperThrow(Tracer, calls[c].w, e)
       IN /\ calls' = [calls EXCEPT ![c] =
                 [@ EXCEPT !.st = "settled", !.orig = Outcome("threw", e),
                           !.res = r.outcome, !.flags = @ \cup {enabled},
                           !.emits = @ \o r.t.out, !.restored = (r.t.depth = calls[c].d0)]]
          /\ Step(r.t, "throw", "other", c)
    /\ UNCHANGED <<wrappers, snap>>

\* the innermost executing original returns a Promise: the wrapper returns
\* result.then(...).catch(...), pending
ReturnPromise ==
  /\ Running # {}
  /\ LET c == Top
     IN calls' = [calls EXCEPT ![c] =
            [@ EXCEPT !.st = "pending", !.orig = Outcome("promise", None),
                      !.res = Outcome("promise", None)]]
  /\ out' = <<>>
  /\ last' = Last("returnPromise", None, FALSE)
  /\ UNCHANGED <<enabled, callStack, depth, wrappers, owners, snap, seq, alwaysOn>>

\* a pending original promise fulfils: the .then handler runs
Fulfil ==
  \E c \in 1..Len(calls), v \in Results :
    /\ calls[c].st = "pending"
    /\ Running = {}
    /\ LET r == WrapperThen(Tracer, calls[c].w, v)
       IN /\ calls' = [calls EXCEPT ![c] =
                 IF r.outcome.how = "exitRaised"
                   THEN [@ EXCEPT !.st = "exitRaised", !.orig = Outcome("fulfilled", v),
                                  !.raised = r.outcome.v, !.flags = @ \cup {enabled},
                                  !.emits = @ \o r.t.out]
                   ELSE [@ EXCEPT !.st = "settled", !.orig = Outcome("fulfilled", v),
                                  !.res = r.outcome, !.flags = @ \cup {enabled},
                                  !.emits = @ \o r.t.out, !.restored = (r.t.depth = calls[c].d0)]]
          /\ Step(r.t, "fulfil", "exit", c)
    /\ UNCHANGED <<wrappers, snap>>

\* the .then handler raised: the .catch handler runs with what it raised
CatchRaised ==
  \E c \in 1..Len(calls) :
    /\ calls[c].st = "exitRaised"
    /\ Running = {}
    /\ LET r == WrapperRejected(Tracer, calls[c].w, calls[c].raised)
       IN /\ calls' = [calls EXCEPT ![c] =
                 [@ EXCEPT !.st = "settled", !.res = r.outcome,
                           !.flags = @ \cup {enabled},
                           !.emits = @ \o r.t.out, !.restored = (r.t.depth = calls[c].d0)]]
          /\ Step(r.t, "catchRaised", "other", c)
    /\ UNCHANGED <<wrappers, snap>>

\* a pending original promise rejects: the .catch handler runs
Reject ==
  \E c \in 1..Len(calls), e \in Thrown :
    /\ calls[c].st = "pending"
    /\ Running = {}
    /\ LET r == WrapperRejected(Tracer, calls[c].w, e)
       IN /\ calls' = [calls EXCEPT ![c] =
                 [@ EXCEPT !.st = "settled", !.orig = Outcome("rejected", e),
                           !.res = r.outcome, !.flags = @ \cup {enabled},
                           !.emits = @ \o r.t.out, !.restored = (r.t.depth = calls[c].d0)]]
          /\ Step(r.t, "reject", "other", c)
    /\ UNCHANGED <<wrappers, snap>>

Next ==
  \/ DoSetEnabled
  \/ DoEnter
  \/ DoExit
  \/ DoError
  \/ DoLog
  \/ DoLogPrompt
  \/ DoLogResponse
  \/ DoLogLLMPrompt
  \/ DoGetCallStack
  \/ MutateSnapshot
  \/ DoTrace
  \/ Call
  \/ Return
  \/ Throw
  \/ ReturnPromise
  \/ Fulfil
  \/ CatchRaised
  \/ Reject

Spec == Init /\ [][Next]_vars

\* the tracer called directly
NextTracer ==
  \/ DoSetEnabled
  \/ DoEnter
  \/ DoExit
  \/ DoError
  \/ DoLog
  \/ DoLogPrompt
  \/ DoLogResponse
  \/ DoLogLLMPrompt

SpecTracer == Init /\ [][NextTracer]_vars

\* the tracer called through wrappers
NextWrap ==
  \/ DoSetEnabled
  \/ Call
  \/ Throw
  \/ Return
  \/ ReturnPromise
  \/ Fulfil
  \/ CatchRaised
  \/ Reject

SpecWrap == InitLoaded /\ [][NextWrap]_vars

\* wrapping, and calling what was wrapped
NextTrace ==
  \/ DoSetEnabled
  \/ DoTrace
  \/ Call
  \/ Return
  \/ Throw

SpecTrace == Init /\ [][NextTrace]_vars

\* a caller that keeps and mutates what getCallStack returned
NextSnapshot ==
  \/ DoSetEnabled
  \/ DoEnter
  \/ DoExit
  \/ DoGetCallStack
  \/ MutateSnapshot

SpecSnapshot == Init /\ [][NextSnapshot]_vars

(* Rendering of values around the truncation threshold. *)

\* a text of n characters: "s", then "a" up to the 100th, then "b"
Text(n) ==
  IF n = 0 THEN ""
  ELSE IF n <= 100 THEN "s" \o Repeat("a", n - 1)
  ELSE "s" \o Repeat("a", 99) \o Repeat("b", n - 100)

RenderLens ==
  {0, 1, ArgPrefixLen, ArgPrefixLen + 1, ArgMaxLen - 1, ArgMaxLen, ArgMaxLen + 1,
   ArgMaxLen + MaxExtra}

\* an array holding one string, whose JSON text has n characters
ArrayOfLen(n) == Obj("[\"" \o Text(n - 4) \o "\"]")

RenderValues ==
  {Str(Text(n)) : n \in RenderLens}
    \cup {ArrayOfLen(n) : n \in {ArgPrefixLen, ArgMaxLen, ArgMaxLen + 1, ArgMaxLen + MaxExtra}}
    \cup {Num("5"), Null}

\* enter(fn, undefined, [v, 7])
RenderEnter ==
  \E v \in RenderValues :
    /\ depth < MaxDepth
    /\ Len(callStack) < MaxDepth
    /\ seq.open < MaxDepth
    /\ ApplyIn(enter(Tracer, "f", "", Args(<<v, Num("7")>>)), "enter", "enter", 0, FALSE, v)
    /\ UNCHANGED <<wrappers, calls, snap>>

\* log("msg", v)
RenderLog ==
  \E v \in RenderValues :
    /\ ApplyIn(log(Tracer, "msg", v), "log", "other", 0, FALSE, v)
    /\ UNCHANGED <<wrappers, calls, snap>>

NextRender ==
  \/ DoSetEnabled
  \/ RenderEnter
  \/ RenderLog
  \/ DoExit

SpecRender == Init /\ [][NextRender]_vars

---------------------------------------------------------------------------
(* C1: while the enablement flag is false, no step writes a line or        *)
(* changes depth or the call stack, and in every state in which the flag   *)
(* is false each tracer operation, and each step of a wrapper of a         *)
(* function called then, leaves the tracer as it was, writes nothing and   *)
(* raises nothing, whatever it is given.                                   *)

QuietOps(t) ==
  /\ \A fn \in FunctionNames, cls \in ClassNames :
       /\ \A args \in EnterArgs : enter(t, fn, cls, args) = Done(t)
       /\ \A result \in ExitResults : exit(t, fn, cls, result) = Done(t)
       /\ \A e \in Thrown : error(t, fn, cls, e) = Done(t)
  /\ \A data \in LogData : log(t, "msg", data) = Done(t)
  /\ \A prompt \in Prompts, metadata \in Metadata :
       /\ logPrompt(t, prompt, metadata) = Done(t)
       /\ logResponse(t, prompt, metadata) = Done(t)
  /\ \A prompt \in LLMPrompts, metadata \in Metadata :
       logLLMPrompt(t, prompt, metadata) = Done(t)

QuietWrappers(t) ==
  \A w \in Decorated :
    /\ \A args \in CallArgs : WrapperEnter(t, w, args).t = t
    /\ \A v \in Results \cup {Undefined} :
         WrapperReturn(t, w, v).t = t /\ WrapperThen(t, w, v).t = t
    /\ \A e \in Thrown :
         WrapperThrow(t, w, e).t = t /\ WrapperRejected(t, w, e).t = t

C1_DisabledIsNoOp ==
  /\ [][~enabled => (out' = <<>> /\ depth' = depth /\ callStack' = callStack)]_vars
  /\ [](~enabled => (QuietOps(Tracer) /\ QuietWrappers(Tracer)))

\* a tracer operation given a value JSON.stringify rejects has run with the flag
\* false, on a tracer that holds frames
C1_Witness ==
  /\ last.op \in {"enter", "exit", "log", "logPrompt", "logResponse", "logLLMPrompt"}
  /\ ~last.en
  /\ last.bad
  /\ depth > 0
  /\ out = <<>>

(* C2: when a run of paired enter/exit calls completes (every enter        *)
(* matched by one later exit), depth and the call stack are what they were *)
(* before the run started.                                                 *)

C2_PairedRestoresBaseline ==
  (seq.done /\ seq.pure) => (depth = seq.baseDepth /\ callStack = seq.baseStack)

(* C3: in every reachable state depth equals the length of the call stack  *)
(* and is not negative, and an exit on an empty stack leaves depth at zero *)
(* and the stack empty.                                                    *)

C3_DepthIsStackLength ==
  /\ depth = Len(callStack)
  /\ depth >= 0
  /\ callStack = <<>> =>
       \A fn \in FunctionNames, cls \in ClassNames, result \in ExitResults :
         LET t2 == exit(Tracer, fn, cls, result).t
         IN t2.depth = 0 /\ t2.callStack = <<>>

(* What the wrapper of one invocation wrote. *)

Count(lines, mark) == Cardinality({i \in 1..Len(lines) : lines[i].mark = mark})
Marks(lines) == [i \in 1..Len(lines) |-> lines[i].mark]
\* tracing was enabled at each of the invocation's calls of the tracer
Traced(c) == calls[c].flags = {TRUE}

(* C4: when a wrapped synchronous function or method throws while tracing  *)
(* is enabled, its wrapper writes exactly one error line and no exit line  *)
(* for that call and raises to the caller the very value that was thrown.  *)

C4_SyncThrowLoggedOnceAndRethrown ==
  /\ \A c \in 1..Len(calls) :
       (calls[c].orig.how = "threw" /\ Traced(c)) =>
         /\ Count(calls[c].emits, "error") = 1
         /\ Count(calls[c].emits, "exit") = 0
         /\ calls[c].res = Outcome("threw", calls[c].orig.v)
  /\ (last.op = "throw" /\ last.en) => Marks(out) = <<"error">>

\* a function and a method have both thrown, traced
C4_Witness ==
  \E c, k \in 1..Len(calls) :
    /\ calls[c].w.form = "function" /\ calls[k].w.form = "method"
    /\ calls[c].orig.how = "threw" /\ calls[k].orig.how = "threw"
    /\ Traced(c) /\ Traced(k)
    /\ calls[c].res.how = "threw" /\ calls[k].res.how = "threw"

(* C5: when a wrapped function returns a promise that later rejects, with  *)
(* tracing enabled, no error line is written while the promise is pending, *)
(* exactly one error line is written when the rejection is delivered, no   *)
(* exit line is written for that call, and the promise the wrapper         *)
(* returned rejects with the original reason.                              *)

C5_RejectionLoggedOnceAtSettlement ==
  /\ \A c \in 1..Len(calls) :
       /\ (calls[c].st = "pending" /\ Traced(c)) =>
            /\ Count(calls[c].emits, "error") = 0
            /\ calls[c].res.how = "promise"
       /\ (calls[c].orig.how = "rejected" /\ Traced(c)) =>
            /\ Count(calls[c].emits, "error") = 1
            /\ Count(calls[c].emits, "exit") = 0
            /\ calls[c].res = Outcome("rejected", calls[c].orig.v)
  /\ (last.op = "reject" /\ last.en) => Marks(out) = <<"error">>

\* a rejection has been delivered to the wrapper of a traced call
C5_Witness ==
  /\ last.op = "reject"
  /\ \E c \in 1..Len(calls) :
       /\ calls[c].orig.how = "rejected" /\ Traced(c)
       /\ calls[c].res.how = "rejected"
       /\ Marks(calls[c].emits) = <<"enter", "error">>

(* C6: with tracing enabled, a call of a wrapped function that returns a   *)
(* value synchronously writes exactly two lines, the entry line and then   *)
(* the exit line, returns that value to the caller, and leaves depth at    *)
(* its value before the call.                                              *)

C6_SyncReturnTwoLines ==
  \A c \in 1..Len(calls) :
    (calls[c].orig.how = "returned" /\ Traced(c)) =>
      /\ Marks(calls[c].emits) = <<"enter", "exit">>
      /\ calls[c].res = Outcome("returned", calls[c].orig.v)
      /\ calls[c].restored

(* C10: with tracing enabled throughout, every frame on the call stack is  *)
(* the frame of an invocation that has not settled, and depth counts those *)
(* frames only.                                                            *)

ActiveFrames ==
  {i \in 1..Len(owners) : owners[i] = 0 \/ calls[owners[i]].st # "settled"}

C10_FramesAreActive ==
  alwaysOn => (/\ Cardinality(ActiveFrames) = Len(callStack)
               /\ depth = Cardinality(ActiveFrames))

(* C8: wrapping a value that is not callable raises a usage error at wrap  *)
(* time, in the function form and in the method form of trace, and no      *)
(* wrapper is produced around it.                                          *)

C8_NonCallableRejected ==
  /\ (last.op = "trace" /\ last.bad) => last.exc # None
  /\ \A w \in wrappers : w.callable

(* C9: mutating the array getCallStack returned changes neither the        *)
(* tracer's call stack nor its depth, and what getCallStack returns is a   *)
(* fresh array holding the frames of the current stack.                    *)

C9_SnapshotIsACopy ==
  /\ [][last'.op = "mutate" => (callStack' = callStack /\ depth' = depth)]_vars
  /\ [](last.op = "getCallStack" => (~snap.alias /\ snap.arr = callStack))

\* the caller has mutated a snapshot of a stack that holds frames, and the
\* snapshot now differs from the stack
C9_Witness ==
  /\ last.op = "mutate"
  /\ snap.held
  /\ Len(callStack) > 0
  /\ snap.arr # callStack

(* C7: the rendering of a value passed to enter as an argument or to log   *)
(* as data.  Rendered is that rendering, cut out of the line the last      *)
(* operation wrote.                                                        *)

Rendered ==
  LET d == out[1].detail
  IN IF last.op = "enter" THEN SubSeq(d, 3, Len(d) - 4)   \* " (" R ", 7)"
     ELSE SubSeq(d, 4, Len(d))                              \* " | " R

HasRendering ==
  /\ last.op \in {"enter", "log"}
  /\ last.en
  /\ last.input # None
  /\ Len(out) = 1

\* r is the first 100 characters of text (after an opening quote or not), an
\* ellipsis, and at its end the annotation of the length of text
TruncatedWithLength(r, text) ==
  LET note == "(" \o ToString(Len(text)) \o " chars)"
  IN /\ Len(r) >= 104 + Len(note)
     /\ \E q \in {0, 1} :
          /\ SubSeq(r, 1 + q, 100 + q) = SubSeq(text, 1, 100)
          /\ SubSeq(r, 101 + q, 103 + q) = "..."
     /\ SubSeq(r, Len(r) - Len(note) + 1, Len(r)) = note

\* the text whose length the threshold is compared with
TextOf(v) == IF TypeOf(v) = "object" /\ v.kind # "null" THEN JSONstringify(v).s ELSE String(v)

(* C7 as claimed: every value longer than 200 characters is rendered as    *)
(* its first 100 characters, an ellipsis and the annotation of its exact   *)
(* length; every value of at most 200 characters is rendered unmodified.   *)

C7_EveryLongValueAnnotated ==
  HasRendering =>
    IF Len(TextOf(last.input)) > 200
      THEN TruncatedWithLength(Rendered, TextOf(last.input))
      ELSE Rendered = TextOf(last.input)

(* C7 amended: a string longer than 200 characters is rendered as its      *)
(* first 100 characters, an ellipsis and the annotation of its exact       *)
(* length; a composite value whose JSON text is longer than 200 characters *)
(* is rendered as the first 100 characters of that text and an ellipsis,   *)
(* with no annotation of the length; every value of at most 200 characters *)
(* is rendered unmodified.                                                 *)

C7_LongStringsAnnotated ==
  HasRendering =>
    LET text == TextOf(last.input)
    IN IF Len(text) <= 200 THEN Rendered = text
       ELSE IF TypeOf(last.input) = "string" THEN TruncatedWithLength(Rendered, text)
       ELSE Rendered = SubSeq(text, 1, 100) \o "..."

\* a string of more than 200 characters has been rendered by enter, one frame deep
C7_Witness ==
  /\ HasRendering
  /\ last.op = "enter"
  /\ last.input.kind = "string"
  /\ Len(last.input.text) > 200
  /\ out[1].indent = 1
  /\ Len(Rendered) < Len(last.input.text)

(* C11: enter's bookkeeping is done when a wrapper is called, nothing is   *)
(* done when the original returns its promise, and exit's bookkeeping is   *)
(* done when the promise fulfils; exit removes the top frame whatever the  *)
(* name it is given.  So when a pending call fulfils while the top frame   *)
(* is the frame of another pending call, the frame removed is the other    *)
(* call's: the stack keeps the frame of the call that has settled and has  *)
(* lost the frame of the call that is still pending.                       *)

HasFrame(os, c) == \E i \in 1..Len(os) : os[i] = c

C11_OverlapLeavesSettledFrame ==
  /\ [][(Len(calls') = Len(calls) + 1 /\ enabled
         /\ calls'[Len(calls')].orig.how # "notInvoked")
        => LET w == calls'[Len(calls')].w
           IN /\ callStack' = Append(callStack,
                                     FullName(WrapperFunctionName(w), WrapperClassName(w)))
              /\ depth' = depth + 1]_vars
  /\ [][\A a \in 1..Len(calls) :
          (Len(calls') = Len(calls) /\ calls[a].st = "running" /\ calls'[a].st = "pending")
          => (callStack' = callStack /\ depth' = depth)]_vars
  /\ [][\A a \in 1..Len(calls) :
          (/\ Len(calls') = Len(calls)
           /\ enabled
           /\ calls[a].st = "pending"
           /\ calls'[a].st = "settled"
           /\ calls'[a].orig.how = "fulfilled")
          => /\ callStack' = Pop(callStack)
             /\ depth' = Max(0, depth - 1)
             /\ \A b \in 1..Len(calls) :
                  (/\ b # a
                   /\ calls[b].st = "pending"
                   /\ HasFrame(owners, a)
                   /\ owners[Len(owners)] = b)
                  => (/\ HasFrame(owners', a)
                      /\ ~HasFrame(owners', b)
                      /\ calls'[b].st = "pending")]_vars

\* two asynchronous calls of different functions overlapped, the one called
\* first has just fulfilled, and the only frame left is its own
C11_Witness ==
  /\ Len(calls) = 2
  /\ alwaysOn
  /\ last.op = "fulfil"
  /\ calls[1].st = "settled"
  /\ calls[1].orig.how = "fulfilled"
  /\ calls[2].st = "pending"
  /\ calls[1].w # calls[2].w
  /\ owners = <<1>>
  /\ callStack = <<FullName(WrapperFunctionName(calls[1].w), WrapperClassName(calls[1].w))>>
  /\ depth = 1

====
